---- MODULE Spec2Model ----
(***************************************************************************)
(* Model of tools/carf_lookup.py: the registry loader, the text            *)
(* normaliser, the similarity scorers, the candidate ranker                *)
(* (find_registry_matches) and the confidence-gated write-back pass        *)
(* (apply_registry, driven by main).                                       *)
(*                                                                         *)
(* Strings are sequences of one-character strings.  Scores are Python      *)
(* floats that are quotients of small integers; they are kept as exact     *)
(* fractions <<n, d>> in lowest terms, so equal floats are equal values.   *)
(* An optional JSON/dict key or value is None == <<>> when absent and      *)
(* Some(x) == <<x>> when present.                                          *)
(***************************************************************************)
EXTENDS Integers, Sequences, FiniteSets, TLC

VARIABLES
    HAVE_RAPIDFUZZ,  \* module flag set by the import at lines 16-20
    pc,              \* position of the run
    REGISTRY,        \* data/carf_registry.csv: None if missing, else Some(rows)
    ENRICHED,        \* data/external_facilities.enriched.json: the records
    OUT_JSON,        \* the enriched snapshot, None until written
    REPORT,          \* tools/carf_lookup_report.csv, None until written
    SUGG,            \* tools/carf_lookup_suggestions.csv, None until written
    regs,            \* main's regs: the loaded registry
    data,            \* apply_registry's data: the target records
    decisions,       \* the loop body's locals, one entry per record done
    report_rows,     \* apply_registry's report_rows
    suggestion_rows, \* apply_registry's suggestion_rows
    updated,         \* apply_registry's updated counter
    printed,         \* lines printed so far
    status,          \* main's return value, None while running
    call,            \* the arguments of one scorer / ranker call
    result           \* what that call returned

vars == <<HAVE_RAPIDFUZZ, pc, REGISTRY, ENRICHED, OUT_JSON, REPORT, SUGG, regs,
          data, decisions, report_rows, suggestion_rows, updated, printed,
          status, call, result>>

----------------------------------------------------------------------------
(* Bounds of the model. *)

MaxLen == 3       \* longest string handed to a scorer in SpecScore
MaxRegs == 2      \* most registry rows in a run
MaxRecs == 2      \* most target records in a run
MaxTopN == 3      \* largest top_n handed to the ranker in SpecRank

----------------------------------------------------------------------------
(* Optional values, strings and fractions. *)

None == <<>>
Some(x) == <<x>>
\* A key that is present with the JSON value null.
Null == <<None, None>>

Alphabet == {"a", "b", " ", "-"}

Digits ==
    <<"0", "1", "2", "3", "4", "5", "6", "7", "8", "9">>

Uppercase ==
    <<"A", "B", "C", "D", "E", "F", "G", "H", "I", "J", "K", "L", "M", "N",
      "O", "P", "Q", "R", "S", "T", "U", "V", "W", "X", "Y", "Z">>

Lowercase ==
    <<"a", "b", "c", "d", "e", "f", "g", "h", "i", "j", "k", "l", "m", "n",
      "o", "p", "q", "r", "s", "t", "u", "v", "w", "x", "y", "z">>

\* The characters of the model in code point order: ' ' (32), '-' (45),
\* '0'-'9' (48-57), 'A'-'Z' (65-90), 'a'-'z' (97-122).
CodeOrder == <<" ", "-">> \o Digits \o Uppercase \o Lowercase

\* The rank of a character in code point order, for sorted().
Code == [c \in {CodeOrder[i] : i \in 1..Len(CodeOrder)} |->
            CHOOSE i \in 1..Len(CodeOrder) : CodeOrder[i] = c]

StringsUpTo(n) == UNION {[1..k -> Alphabet] : k \in 0..n}

RECURSIVE GCD(_, _)
GCD(a, b) == IF b = 0 THEN a ELSE GCD(b, a % b)

\* The float n / d, d > 0, n >= 0.
Frac(n, d) == LET g == GCD(n, d) IN <<n \div g, d \div g>>

Zero == Frac(0, 1)
One == Frac(1, 1)

FLess(x, y) == x[1] * y[2] < y[1] * x[2]
FGeq(x, y) == ~FLess(x, y)
\* Python's max(x, y) and min(x, y) on floats.
FMax(x, y) == IF FLess(x, y) THEN y ELSE x
FMin(x, y) == IF FLess(y, x) THEN y ELSE x

\* The largest score of a non-empty set.
FMaxOf(scores) == CHOOSE x \in scores : \A y \in scores : FGeq(x, y)
FAdd(x, y) == Frac(x[1] * y[2] + y[1] * x[2], x[2] * y[2])
FMul(x, y) == Frac(x[1] * y[1], x[2] * y[2])

----------------------------------------------------------------------------
(* str methods and re.sub, on sequences of characters. *)

\* The class [a-z0-9] of line 51.
LowerAlnum == {Lowercase[i] : i \in 1..Len(Lowercase)}
                  \cup {Digits[i] : i \in 1..Len(Digits)}

\* str.lower() of one character.
LowerOf == [c \in {CodeOrder[i] : i \in 1..Len(CodeOrder)} |->
               IF \E n \in 1..Len(Uppercase) : Uppercase[n] = c
               THEN Lowercase[CHOOSE n \in 1..Len(Uppercase) : Uppercase[n] = c]
               ELSE c]

\* str.lower()
lower(s) == [i \in 1..Len(s) |-> LowerOf[s[i]]]

\* The number of characters of class that s starts with.
RunLen(s, class) ==
    CHOOSE n \in 0..Len(s) :
        /\ n = Len(s) \/ s[n + 1] \notin class
        /\ \A i \in 1..n : s[i] \in class

Drop(s, n) == SubSeq(s, n + 1, Len(s))

\* re.sub(class+, ' ', s): every maximal run of class becomes one space.
\* What stays is every character outside class and, as a space, the first
\* character of every run.
ReSubRun(s, class) ==
    LET marked == [i \in 1..Len(s) |->
                      [c |-> IF s[i] \in class THEN " " ELSE s[i],
                       keep |-> s[i] \notin class \/ i = 1 \/ s[i - 1] \notin class]]
        kept == SelectSeq(marked, LAMBDA m : m.keep)
    IN SubSeq([k \in 1..Len(kept) |-> kept[k].c], 1, Len(kept))

CharsOf(s) == {s[i] : i \in 1..Len(s)}

\* str.strip()
RECURSIVE strip(_)
strip(s) ==
    IF s = <<>> THEN <<>>
    ELSE IF s[1] = " " THEN strip(Tail(s))
    ELSE IF s[Len(s)] = " " THEN strip(SubSeq(s, 1, Len(s) - 1))
    ELSE s

\* str.split(): the maximal runs of non-whitespace, in order.
RECURSIVE split(_)
split(s) ==
    IF s = <<>> THEN <<>>
    ELSE IF s[1] = " " THEN split(Tail(s))
    ELSE LET n == RunLen(s, CharsOf(s) \ {" "})
         IN <<SubSeq(s, 1, n)>> \o split(Drop(s, n))

\* sep.join(parts)
RECURSIVE join(_, _)
join(parts, sep) ==
    IF parts = <<>> THEN <<>>
    ELSE IF Len(parts) = 1 THEN parts[1]
    ELSE parts[1] \o sep \o join(Tail(parts), sep)

\* s < t for str: lexicographic by code point.
RECURSIVE StrLess(_, _)
StrLess(s, t) ==
    IF t = <<>> THEN FALSE
    ELSE IF s = <<>> THEN TRUE
    ELSE IF s[1] = t[1] THEN StrLess(Tail(s), Tail(t))
    ELSE Code[s[1]] < Code[t[1]]

\* sorted(xs) for a list of str (insertion keeps equal items in order).
RECURSIVE Insert(_, _)
Insert(x, xs) ==
    IF xs = <<>> THEN <<x>>
    ELSE IF StrLess(x, xs[1]) THEN <<x>> \o xs
    ELSE <<xs[1]>> \o Insert(x, Tail(xs))

RECURSIVE sorted(_)
sorted(xs) ==
    IF xs = <<>> THEN <<>>
    ELSE Insert(xs[Len(xs)], sorted(SubSeq(xs, 1, Len(xs) - 1)))

\* sorted(S) for a set of str.
RECURSIVE sorted_set(_)
sorted_set(S) ==
    IF S = {} THEN <<>>
    ELSE LET m == CHOOSE x \in S : \A y \in S : x = y \/ StrLess(x, y)
         IN <<m>> \o sorted_set(S \ {m})

SetOf(xs) == {xs[i] : i \in 1..Len(xs)}

----------------------------------------------------------------------------
(* normalize_text, lines 47-53 *)

normalize_text(s) ==
    IF s = <<>> THEN <<>>
    ELSE LET s1 == lower(s)
             s2 == ReSubRun(s1, CharsOf(s1) \ (LowerAlnum \cup {" "}))
             s3 == ReSubRun(s2, {" "})
         IN strip(s3)

----------------------------------------------------------------------------
(* difflib.SequenceMatcher(None, a, b).ratio(), as called at line 62.      *)
(* Positions are Python's: a[i] is a[i + 1] here, windows are half-open.   *)

\* Length of the longest k with a[i:i+k] == b[j:j+k] inside the windows.
BlockLen(a, b, i, j, ahi, bhi) ==
    LET room == IF ahi - i <= bhi - j THEN ahi - i ELSE bhi - j
    IN CHOOSE k \in 0..room :
          /\ k = room \/ a[i + k + 1] # b[j + k + 1]
          /\ \A t \in 1..k : a[i + t] = b[j + t]

\* The block lengths inside the windows: entry [i - alo + 1][j - blo + 1]
\* is the length of the block that starts at a[i], b[j].
BlockLens(a, b, alo, ahi, blo, bhi) ==
    SubSeq([i \in 1..(ahi - alo) |->
               SubSeq([j \in 1..(bhi - blo) |->
                          BlockLen(a, b, alo + i - 1, blo + j - 1, ahi, bhi)],
                      1, bhi - blo)],
           1, ahi - alo)

\* The largest entry of the table K.
LargestBlock(K) ==
    LET sizes == {K[i][j] : i \in 1..Len(K), j \in 1..Len(K[1])}
    IN CHOOSE k \in sizes : \A x \in sizes : x <= k

\* The start of a block of bestsize in K: earliest in a, then earliest in b.
EarliestBlock(K, bestsize) ==
    CHOOSE p \in (1..Len(K)) \X (1..Len(K[1])) :
        /\ K[p[1]][p[2]] = bestsize
        /\ \A i \in 1..Len(K), j \in 1..Len(K[1]) :
              K[i][j] = bestsize => (p[1] < i \/ (p[1] = i /\ p[2] <= j))

BlockAt(alo, blo, p, bestsize) == <<alo + p[1] - 1, blo + p[2] - 1, bestsize>>

LongestIn(alo, blo, K, bestsize) ==
    IF bestsize = 0 THEN <<alo, blo, 0>>
    ELSE BlockAt(alo, blo, EarliestBlock(K, bestsize), bestsize)

LongestOf(alo, blo, K) == LongestIn(alo, blo, K, LargestBlock(K))

\* find_longest_match: the longest block, earliest in a, then earliest in b.
find_longest_match(a, b, alo, ahi, blo, bhi) ==
    IF alo >= ahi \/ blo >= bhi THEN <<alo, blo, 0>>
    ELSE LongestOf(alo, blo, BlockLens(a, b, alo, ahi, blo, bhi))

\* get_matching_blocks: total size of the blocks found by recursing to the
\* left and to the right of the longest match.
RECURSIVE MatchedChars(_, _, _, _, _, _)
MatchedAround(a, b, alo, ahi, blo, bhi, m) ==
    IF m[3] = 0 THEN 0
    ELSE m[3]
         + (IF alo < m[1] /\ blo < m[2]
            THEN MatchedChars(a, b, alo, m[1], blo, m[2]) ELSE 0)
         + (IF m[1] + m[3] < ahi /\ m[2] + m[3] < bhi
            THEN MatchedChars(a, b, m[1] + m[3], ahi, m[2] + m[3], bhi) ELSE 0)

MatchedChars(a, b, alo, ahi, blo, bhi) ==
    MatchedAround(a, b, alo, ahi, blo, bhi,
                  find_longest_match(a, b, alo, ahi, blo, bhi))

\* ratio(): 2.0 * matches / length, 1.0 when both are empty.
SequenceMatcher_ratio(a, b) ==
    LET length == Len(a) + Len(b)
    IN IF length = 0 THEN One
       ELSE Frac(2 * MatchedChars(a, b, 0, Len(a), 0, Len(b)), length)

----------------------------------------------------------------------------
(* The rapidfuzz.fuzz functions called at lines 59 and 73-75 (library      *)
(* release 3: no default preprocessing), each a float in 0..100.           *)

\* The row of the longest-common-subsequence table for one more character
\* c of a, from the row prev before it: entry j + 1 is the length for the
\* prefix b[:j], which is prev's unless c is matched with some b[m], m <= j.
LCSRow(prev, c, b) ==
    SubSeq([n \in 1..(Len(b) + 1) |->
               LET lens == {prev[n]} \cup
                           {prev[m] + 1 : m \in {m \in 1..(n - 1) : b[m] = c}}
               IN CHOOSE x \in lens : \A y \in lens : x >= y],
           1, Len(b) + 1)

\* The last row of the table after the characters a[lo..hi], prev being the
\* row before them (never empty: it has Len(b) + 1 entries); the range is
\* halved to keep the evaluation shallow.
RECURSIVE LCSRows(_, _, _, _, _)
LCSRows(a, b, lo, hi, prev) ==
    IF Len(prev) = 0 \/ lo > hi THEN prev
    ELSE IF lo = hi THEN LCSRow(prev, a[lo], b)
    ELSE LCSRows(a, b, (lo + hi) \div 2 + 1, hi,
                 LCSRows(a, b, lo, (lo + hi) \div 2, prev))

\* Length of the longest common subsequence of a and b.
LCS(a, b) ==
    IF a = <<>> \/ b = <<>> THEN 0
    ELSE LCSRows(a, b, 1, Len(a), [j \in 1..(Len(b) + 1) |-> 0])[Len(b) + 1]

\* Indel distance: insertions and deletions turning a into b.
Indel(a, b) == Len(a) + Len(b) - 2 * LCS(a, b)

\* 100 - 100 * dist / lensum, 100 when lensum is 0.
norm_distance(dist, lensum) ==
    IF lensum = 0 THEN Frac(100, 1) ELSE Frac(100 * (lensum - dist), lensum)

fuzz_ratio(a, b) == norm_distance(Indel(a, b), Len(a) + Len(b))

fuzz_token_sort_ratio(a, b) ==
    fuzz_ratio(join(sorted(split(a)), <<" ">>), join(sorted(split(b)), <<" ">>))

\* Best ratio of the needle s1 against the windows of s2: its proper
\* prefixes shorter than s1, its windows as long as s1, its last suffixes.
partial_ratio_impl(s1, s2) ==
    LET len1 == Len(s1)
        len2 == Len(s2)
        pre == {SubSeq(s2, 1, i) : i \in {i \in 1..(len1 - 1) :
                    s2[i] \in CharsOf(s1)}}
        mid == {SubSeq(s2, i + 1, i + len1) : i \in {i \in 0..(len2 - len1 - 1) :
                    len1 > 0 /\ s2[i + len1] \in CharsOf(s1)}}
        suf == {SubSeq(s2, i + 1, len2) : i \in {i \in (len2 - len1)..(len2 - 1) :
                    s2[i + 1] \in CharsOf(s1)}}
    IN FMaxOf({fuzz_ratio(s1, w) : w \in pre \cup mid \cup suf} \cup {Zero})

\* For strings of one length the needle is tried both ways round, unless
\* the first way res is already 100.
partial_ratio_both(res, shorter, longer) ==
    IF res # Frac(100, 1) /\ Len(shorter) = Len(longer)
    THEN FMax(res, partial_ratio_impl(longer, shorter))
    ELSE res

fuzz_partial_ratio(a, b) ==
    IF a = <<>> /\ b = <<>> THEN Frac(100, 1)
    ELSE IF Len(a) <= Len(b)
         THEN partial_ratio_both(partial_ratio_impl(a, b), a, b)
         ELSE partial_ratio_both(partial_ratio_impl(b, a), b, a)

fuzz_token_set_ratio(a, b) ==
    LET tokens_a == SetOf(split(a))
        tokens_b == SetOf(split(b))
        intersect == tokens_a \cap tokens_b
        diff_ab == join(sorted_set(tokens_a \ tokens_b), <<" ">>)
        diff_ba == join(sorted_set(tokens_b \ tokens_a), <<" ">>)
        sect_len == Len(join(sorted_set(intersect), <<" ">>))
        sep == IF sect_len # 0 THEN 1 ELSE 0
        sect_ab_len == sect_len + sep + Len(diff_ab)
        sect_ba_len == sect_len + sep + Len(diff_ba)
        res == norm_distance(Indel(diff_ab, diff_ba), sect_ab_len + sect_ba_len)
        sect_ab == norm_distance(sep + Len(diff_ab), sect_len + sect_ab_len)
        sect_ba == norm_distance(sep + Len(diff_ba), sect_len + sect_ba_len)
    IN IF tokens_a = {} \/ tokens_b = {} THEN Zero
       ELSE IF intersect # {} /\ (tokens_a \subseteq tokens_b \/ tokens_b \subseteq tokens_a)
            THEN Frac(100, 1)
       ELSE IF sect_len = 0 THEN res
       ELSE FMax(FMax(res, sect_ab), sect_ba)

----------------------------------------------------------------------------
(* The scorers, lines 55-90 *)

\* token_overlap_score, without normalize_text.
token_overlap_score_raw(a, b) ==
    LET A == SetOf(split(a))
        B == SetOf(split(b))
        larger == IF Cardinality(A) >= Cardinality(B)
                  THEN Cardinality(A) ELSE Cardinality(B)
    IN IF A = {} \/ B = {} THEN Zero
       ELSE Frac(Cardinality(A \cap B), larger)

\* token_overlap_score, lines 84-90
token_overlap_score(a, b) ==
    LET A == SetOf(split(normalize_text(a)))
        B == SetOf(split(normalize_text(b)))
        inter == A \cap B
        larger == IF Cardinality(A) >= Cardinality(B)
                  THEN Cardinality(A) ELSE Cardinality(B)
    IN IF A = {} \/ B = {} THEN Zero
       ELSE Frac(Cardinality(inter), larger)

\* similar, lines 55-62
similar(a, b) ==
    IF HAVE_RAPIDFUZZ
    THEN FMul(fuzz_token_sort_ratio(a, b), Frac(1, 100))
    ELSE SequenceMatcher_ratio(lower(a), lower(b))

\* rapidfuzz_combined, lines 65-82
rapidfuzz_combined(a, b) ==
    IF ~HAVE_RAPIDFUZZ THEN similar(a, b)
    ELSE LET ts == fuzz_token_sort_ratio(a, b)
             pr == fuzz_partial_ratio(a, b)
             tset == fuzz_token_set_ratio(a, b)
             weighted == FAdd(FAdd(FMul(Frac(45, 100), ts), FMul(Frac(25, 100), pr)),
                              FMul(Frac(20, 100), tset))
             score == FMul(weighted, Frac(1, 100))
             nudged == FMax(score, FMul(token_overlap_score(a, b), Frac(9, 10)))
         IN FMin(FMax(nudged, Zero), One)

----------------------------------------------------------------------------
(* The inputs a run may find: the rows of data/carf_registry.csv and the   *)
(* records of data/external_facilities.enriched.json.                      *)

\* CSV rows: name, carf_brain_injury, average_therapy_hours, level_of_care.
RowSet ==
    { [name |-> <<"a", "b">>, carf_brain_injury |-> "yes",
       average_therapy_hours |-> "3", level_of_care |-> "irf"],
      [name |-> <<" ", "a", "b">>, carf_brain_injury |-> "",
       average_therapy_hours |-> "", level_of_care |-> " "],
      [name |-> <<"a", "b", "c">>, carf_brain_injury |-> " TRUE",
       average_therapy_hours |-> "0", level_of_care |-> ""],
      [name |-> <<"a", "b", " ", "c", "d">>, carf_brain_injury |-> "no",
       average_therapy_hours |-> "4", level_of_care |-> "snf"],
      [name |-> <<"a", "b">>, carf_brain_injury |-> "1",
       average_therapy_hours |-> "n/a", level_of_care |-> ""] }

\* str.strip() and str.lower() of the cells above.
StripCell(cell) ==
    CASE cell = " TRUE" -> "TRUE"
      [] cell = " " -> ""
      [] OTHER -> cell

LowerCell(cell) == IF cell = "TRUE" THEN "true" ELSE cell

\* float(cell): the cells that parse, and their values.
FloatOf == [cell \in {"0", "3", "4"} |->
               CASE cell = "0" -> 0 [] cell = "3" -> 3 [] cell = "4" -> 4]

Brain(v) == [value |-> v]
Carf(b) == [brain_injury |-> b]
Specializations(c) == [carf_accreditations |-> c]
ProgramDetails(h) == [average_therapy_hours_per_day |-> h]

\* name.form is "dict" for {"value": ...} and "plain" for a string or null.
\* specializations is None (no key), Null ("specializations": null) or
\* Some(dict).
Target(form, name, aliases, spec, pd, level) ==
    [id |-> None, name |-> [form |-> form, value |-> name],
     alias_names |-> aliases, specializations |-> spec,
     program_details |-> pd, level_of_care |-> level]

FullSpec(v) == Some(Specializations(Some(Carf(Some(Brain(v))))))

TargetSet ==
    { Target("plain", Some(<<"A", "b">>), None, None, None, None),
      Target("dict", Some(<<"a", "b", "c">>), Some(<<>>), FullSpec(Some(TRUE)),
             Some(ProgramDetails(Some([value |-> 2]))), Some("ltach")),
      Target("plain", Some(<<"a">>), None, Some(Specializations(None)),
             Some(ProgramDetails(None)), None),
      Target("plain", None, None, FullSpec(Some(FALSE)), None, None),
      Target("plain", Some(<<"e">>), Some(<<>>), FullSpec(None), None,
             Some("ltach")),
      Target("dict", None, Some(<< <<"a", "b">>, <<"c", "d">> >>),
             FullSpec(Some(FALSE)), Some(ProgramDetails(Some([value |-> 2]))),
             None),
      Target("dict", Some(<<>>), Some(<<>>), None, None, None),
      Target("plain", Some(<<"a", "b">>), None, Null, None, None) }

\* The lists of at most n pairwise different elements of S.
SeqsUpTo(S, n) ==
    UNION {{xs \in [1..k -> S] : \A i, j \in 1..k : i # j => xs[i] # xs[j]} :
           k \in 0..n}

----------------------------------------------------------------------------
(* load_local_registry, lines 30-44 *)

\* float(...) raises ValueError on a non-empty cell that is no number.
RowRaises(r) ==
    r.average_therapy_hours # "" /\ r.average_therapy_hours \notin DOMAIN FloatOf

FileRaises(file) ==
    IF file = None THEN FALSE
    ELSE \E i \in 1..Len(file[1]) : RowRaises(file[1][i])

\* The dict appended at lines 38-43.
LoadRow(r) ==
    [name |-> strip(r.name),
     carf_brain_injury |->
        LowerCell(StripCell(r.carf_brain_injury)) \in {"1", "true", "yes"},
     average_therapy_hours |->
        IF r.average_therapy_hours # ""
        THEN Some(FloatOf[r.average_therapy_hours]) ELSE None,
     level_of_care |->
        IF StripCell(r.level_of_care) # ""
        THEN Some(StripCell(r.level_of_care)) ELSE None]

\* file is None when the path does not exist, else Some(rows).
load_local_registry(file) ==
    IF file = None THEN <<>>
    ELSE [i \in 1..Len(file[1]) |-> LoadRow(file[1][i])]

----------------------------------------------------------------------------
(* find_registry_matches, lines 93-110 *)

\* A candidate is the tuple (score, r): c[1] is the score, c[2] the row.

\* Line 105-107: the score of one registry row.
RowScore(name, text, r) ==
    LET score_sim == FMax(similar(text, r.name), similar(name, r.name))
        score_tok == token_overlap_score(text, r.name)
    IN FMax(score_sim, score_tok)

\* list.sort(key=score, reverse=True): stable, so equal scores keep their
\* order.  c goes behind every element whose score is >= its own.
\* InsertDesc, with c going in front of the elements of equal score.
RECURSIVE InsertDescUnstable(_, _)
InsertDescUnstable(c, cs) ==
    IF cs = <<>> THEN <<c>>
    ELSE IF ~FLess(c[1], cs[1][1]) THEN <<c>> \o cs
    ELSE <<cs[1]>> \o InsertDescUnstable(c, Tail(cs))

RECURSIVE InsertDesc(_, _)
InsertDesc(c, cs) ==
    IF cs = <<>> THEN <<c>>
    ELSE IF FLess(cs[1][1], c[1]) THEN <<c>> \o cs
    ELSE <<cs[1]>> \o InsertDesc(c, Tail(cs))

RECURSIVE SortDesc(_)
SortDesc(cs) ==
    IF cs = <<>> THEN <<>>
    ELSE InsertDesc(cs[Len(cs)], SortDesc(SubSeq(cs, 1, Len(cs) - 1)))

\* candidates[:top_n], top_n >= 0
Prefix(cs, n) == SubSeq(cs, 1, IF n < Len(cs) THEN n ELSE Len(cs))

\* find_registry_matches, without the early return of lines 100-101.
find_registry_matches_unguarded(name, aliases, rs, top_n) ==
    LET text == name \o <<" ">> \o join(aliases, <<" ">>)
        candidates == [i \in 1..Len(rs) |-> <<RowScore(name, text, rs[i]), rs[i]>>]
    IN Prefix(SortDesc(candidates), top_n)

find_registry_matches(name, aliases, rs, top_n) ==
    IF name = <<>> /\ aliases = <<>> THEN <<>>
    ELSE LET text == name \o <<" ">> \o join(aliases, <<" ">>)
             candidates == [i \in 1..Len(rs) |-> <<RowScore(name, text, rs[i]), rs[i]>>]
         IN Prefix(SortDesc(candidates), top_n)

----------------------------------------------------------------------------
(* apply_registry, lines 113-202 *)

AUTO_APPLY_THRESHOLD == Frac(3, 4)    \* 0.75, line 120
SUGGESTION_MIN == Frac(3, 10)         \* 0.3, line 121

\* round(x, ndigits) for scale = 10^ndigits: nearest, ties to even.
round(x, scale) ==
    LET q == (x[1] * scale) \div x[2]
        rem == (x[1] * scale) % x[2]
        up == 2 * rem > x[2] \/ (2 * rem = x[2] /\ q % 2 = 1)
    IN Frac(IF up THEN q + 1 ELSE q, scale)

\* Lines 124-129: the name (plain or {"value": ...}) and the aliases.
NameOf(f) == IF f.name.value = None THEN <<>> ELSE f.name.value[1]
AliasesOf(f) == IF f.alias_names = None THEN <<>> ELSE f.alias_names[1]

\* f['specializations']['carf_accreditations']['brain_injury']['value'],
\* False when any key is missing (lines 135-139 and 167).
CarfValue(f) ==
    /\ f.specializations # None
    /\ f.specializations # Null
    /\ f.specializations[1].carf_accreditations # None
    /\ f.specializations[1].carf_accreditations[1].brain_injury # None
    /\ f.specializations[1].carf_accreditations[1].brain_injury[1].value = Some(TRUE)

\* Truthiness of match.get('average_therapy_hours'), line 153.
HoursTruthy(h) == h # None /\ h[1] # 0

\* Merge, except that the flag is assigned: brain['value'] = bool(flag).
MergeAssignFlag(f, match) ==
    LET pd == IF f.program_details = None
              THEN ProgramDetails(None) ELSE f.program_details[1]
    IN [f EXCEPT
          !.specializations =
              Some(Specializations(Some(Carf(Some(Brain(Some(match.carf_brain_injury))))))),
          !.program_details =
              Some(IF HoursTruthy(match.average_therapy_hours)
                   THEN ProgramDetails(Some([value |-> match.average_therapy_hours[1]]))
                   ELSE pd),
          !.level_of_care = IF match.level_of_care # None
                            THEN match.level_of_care ELSE @]

\* Merge, except that program_details is rebuilt: f['program_details'] = {}.
MergeFreshDetails(f, match) ==
    LET spec == IF f.specializations = None
                THEN Specializations(None) ELSE f.specializations[1]
        carf == IF spec.carf_accreditations = None
                THEN Carf(None) ELSE spec.carf_accreditations[1]
        brain == IF carf.brain_injury = None
                 THEN Brain(None) ELSE carf.brain_injury[1]
        brain2 == IF match.carf_brain_injury
                  THEN [brain EXCEPT !.value = Some(TRUE)] ELSE brain
    IN [f EXCEPT
          !.specializations = Some(Specializations(Some(Carf(Some(brain2))))),
          !.program_details =
              Some(IF HoursTruthy(match.average_therapy_hours)
                   THEN ProgramDetails(Some([value |-> match.average_therapy_hours[1]]))
                   ELSE ProgramDetails(None)),
          !.level_of_care = IF match.level_of_care # None
                            THEN match.level_of_care ELSE @]

\* Lines 146-156: the merge of the winning row into the record.
Merge(f, match) ==
    LET spec == IF f.specializations = None
                THEN Specializations(None) ELSE f.specializations[1]
        carf == IF spec.carf_accreditations = None
                THEN Carf(None) ELSE spec.carf_accreditations[1]
        brain == IF carf.brain_injury = None
                 THEN Brain(None) ELSE carf.brain_injury[1]
        brain2 == IF match.carf_brain_injury
                  THEN [brain EXCEPT !.value = Some(TRUE)] ELSE brain
        pd == IF f.program_details = None
              THEN ProgramDetails(None) ELSE f.program_details[1]
        pd2 == IF HoursTruthy(match.average_therapy_hours)
               THEN [pd EXCEPT !.average_therapy_hours_per_day =
                        Some([value |-> match.average_therapy_hours[1]])]
               ELSE pd
    IN [f EXCEPT
          !.specializations = Some(Specializations(Some(Carf(Some(brain2))))),
          !.program_details = Some(pd2),
          !.level_of_care = IF match.level_of_care # None
                            THEN match.level_of_care ELSE @]

\* ShouldApply, with the two thresholds mixed up.
ShouldApplySuggestionMin(candidates) ==
    candidates # <<>> /\ FGeq(candidates[1][1], SUGGESTION_MIN)

\* ShouldApplyAt, with the comparison the wrong way round.
ShouldApplyBelow(t, candidates) ==
    candidates # <<>> /\ FLess(candidates[1][1], t)

\* Line 143 with the value t for AUTO_APPLY_THRESHOLD.
ShouldApplyAt(t, candidates) ==
    candidates # <<>> /\ FGeq(candidates[1][1], t)

\* Line 143: top_match and top_score >= AUTO_APPLY_THRESHOLD.
ShouldApply(candidates) == ShouldApplyAt(AUTO_APPLY_THRESHOLD, candidates)

\* A row that offers nothing.
NoOffer == [name |-> <<>>, carf_brain_injury |-> FALSE,
            average_therapy_hours |-> None, level_of_care |-> None]

\* Decide, with the setdefault calls of lines 146-152 run before the test of
\* line 143, for every record that has a candidate.
DecideSetdefaultFirst(f, candidates) ==
    IF ShouldApply(candidates) THEN Merge(f, candidates[1][2])
    ELSE IF candidates # <<>> THEN Merge(f, NoOffer)
    ELSE f

\* Decide, merging every candidate at or above the threshold, the best last.
RECURSIVE MergeAll(_, _)
MergeAll(f, candidates) ==
    IF candidates = <<>> \/ ~FGeq(candidates[1][1], AUTO_APPLY_THRESHOLD) THEN f
    ELSE Merge(MergeAll(f, Tail(candidates)), candidates[1][2])

DecideMergeAll(f, candidates) == MergeAll(f, candidates)

\* Lines 141-158: the record after the decision.
Decide(f, candidates) ==
    IF ShouldApply(candidates) THEN Merge(f, candidates[1][2]) ELSE f

\* A record whose specializations is null ends the run with AttributeError:
\* at line 147 when it is applied (setdefault returns the None that is
\* there), at line 167 otherwise (f.get returns None, not the default).
RecordRaises(f) == f.specializations = Null

\* Lines 161-168: the decision-report row.
ReportRow(f, f2, candidates) ==
    [id |-> f.id, name |-> NameOf(f), matched |-> candidates # <<>>,
     match_score |-> round(IF candidates # <<>> THEN candidates[1][1] ELSE Zero, 100),
     carf_before |-> CarfValue(f), carf_after |-> CarfValue(f2)]

\* Lines 173-180: one suggestion row.
SuggestionRow(f, c) ==
    [id |-> f.id, facility_name |-> NameOf(f), candidate_name |-> c[2].name,
     score |-> round(c[1], 1000), candidate_carf |-> c[2].carf_brain_injury,
     candidate_therapy_hours |-> c[2].average_therapy_hours]

\* Suggests, with the two thresholds mixed up.
SuggestsAutoApply(c) == FGeq(c[1], AUTO_APPLY_THRESHOLD)

\* Line 172: whether a candidate is surfaced.
Suggests(c) == FGeq(c[1], SUGGESTION_MIN)

\* Lines 171-180: the rows appended for one record.
RECURSIVE Suggestions(_, _)
Suggestions(f, candidates) ==
    IF candidates = <<>> THEN <<>>
    ELSE (IF Suggests(candidates[1])
          THEN <<SuggestionRow(f, candidates[1])>> ELSE <<>>)
         \o Suggestions(f, Tail(candidates))

----------------------------------------------------------------------------
(* The run: main, lines 205-212, and apply_registry's statements. *)

WithIds(ts) == [i \in 1..Len(ts) |-> [ts[i] EXCEPT !.id = Some(i)]]

Init ==
    /\ HAVE_RAPIDFUZZ \in BOOLEAN
    /\ pc = "main"
    /\ REGISTRY \in {None} \cup {Some(rs) : rs \in SeqsUpTo(RowSet, MaxRegs)}
    /\ ENRICHED \in {WithIds(ts) : ts \in SeqsUpTo(TargetSet, MaxRecs)}
    /\ OUT_JSON = None /\ REPORT = None /\ SUGG = None
    /\ regs = <<>> /\ data = <<>> /\ decisions = <<>>
    /\ report_rows = <<>> /\ suggestion_rows = <<>> /\ updated = 0
    /\ printed = <<>> /\ status = None
    /\ call = None /\ result = None

\* Line 206, when no cell makes float() raise.
LoadRegistry ==
    /\ pc = "main"
    /\ ~FileRaises(REGISTRY)
    /\ regs' = load_local_registry(REGISTRY)
    /\ pc' = "loaded"
    /\ UNCHANGED <<HAVE_RAPIDFUZZ, REGISTRY, ENRICHED, OUT_JSON, REPORT, SUGG,
                   data, decisions, report_rows, suggestion_rows, updated,
                   printed, status, call, result>>

\* Line 206, when float() raises ValueError at line 41: main does not catch it.
LoadRegistryRaises ==
    /\ pc = "main"
    /\ FileRaises(REGISTRY)
    /\ pc' = "raised"
    /\ UNCHANGED <<HAVE_RAPIDFUZZ, REGISTRY, ENRICHED, OUT_JSON, REPORT, SUGG,
                   regs, data, decisions, report_rows, suggestion_rows, updated,
                   printed, status, call, result>>

\* NoRegistry, except that main returns 0.
NoRegistryReturnsZero ==
    /\ pc = "loaded"
    /\ regs = <<>>
    /\ printed' = printed \o << <<"No local registry found">>, <<"Place a CSV">> >>
    /\ status' = Some(0)
    /\ pc' = "done"
    /\ UNCHANGED <<HAVE_RAPIDFUZZ, REGISTRY, ENRICHED, OUT_JSON, REPORT, SUGG,
                   regs, data, decisions, report_rows, suggestion_rows, updated,
                   call, result>>

\* Lines 207-210
NoRegistry ==
    /\ pc = "loaded"
    /\ regs = <<>>
    /\ printed' = printed \o << <<"No local registry found">>, <<"Place a CSV">> >>
    /\ status' = Some(1)
    /\ pc' = "done"
    /\ UNCHANGED <<HAVE_RAPIDFUZZ, REGISTRY, ENRICHED, OUT_JSON, REPORT, SUGG,
                   regs, data, decisions, report_rows, suggestion_rows, updated,
                   call, result>>

\* Lines 211 and 114-117
ReadTargets ==
    /\ pc = "loaded"
    /\ regs # <<>>
    /\ data' = ENRICHED
    /\ report_rows' = <<>>
    /\ suggestion_rows' = <<>>
    /\ updated' = 0
    /\ pc' = "loop"
    /\ UNCHANGED <<HAVE_RAPIDFUZZ, REGISTRY, ENRICHED, OUT_JSON, REPORT, SUGG,
                   regs, decisions, printed, status, call, result>>

\* Lines 123-180: one iteration of the loop, on the next record.
ProcessRecord ==
    /\ pc = "loop"
    /\ Len(decisions) < Len(data)
    /\ ~RecordRaises(data[Len(decisions) + 1])
    /\ \E f \in {data[Len(decisions) + 1]} :
       \E candidates \in {find_registry_matches(NameOf(f), AliasesOf(f), regs, 5)} :
       LET i == Len(decisions) + 1
           applied == ShouldApply(candidates)
           f2 == Decide(f, candidates)
       IN /\ data' = [data EXCEPT ![i] = f2]
          /\ updated' = IF applied THEN updated + 1 ELSE updated
          /\ report_rows' = Append(report_rows, ReportRow(f, f2, candidates))
          /\ suggestion_rows' = suggestion_rows \o Suggestions(f, candidates)
          /\ decisions' = Append(decisions,
                                 [candidates |-> candidates, applied |-> applied])
    /\ UNCHANGED <<HAVE_RAPIDFUZZ, pc, REGISTRY, ENRICHED, OUT_JSON, REPORT, SUGG,
                   regs, printed, status, call, result>>

\* Lines 123-167, for a record that makes line 147 or line 167 raise: nothing
\* catches the exception, so apply_registry and main end there, before any
\* output is written.  Neither statement has changed the record.
ProcessRecordRaises ==
    /\ pc = "loop"
    /\ Len(decisions) < Len(data)
    /\ RecordRaises(data[Len(decisions) + 1])
    /\ pc' = "raised"
    /\ UNCHANGED <<HAVE_RAPIDFUZZ, REGISTRY, ENRICHED, OUT_JSON, REPORT, SUGG,
                   regs, data, decisions, report_rows, suggestion_rows, updated,
                   printed, status, call, result>>

\* Lines 183-202 and 212
WriteOutputs ==
    /\ pc = "loop"
    /\ Len(decisions) = Len(data)
    /\ OUT_JSON' = Some(data)
    /\ REPORT' = Some(report_rows)
    /\ SUGG' = Some(suggestion_rows)
    /\ printed' = printed \o << <<"auto-applied", updated>>,
                                <<"Wrote candidate suggestions">> >>
    /\ status' = Some(0)
    /\ pc' = "done"
    /\ UNCHANGED <<HAVE_RAPIDFUZZ, REGISTRY, ENRICHED, regs, data, decisions,
                   report_rows, suggestion_rows, updated, call, result>>

Next ==
    \/ LoadRegistry
    \/ LoadRegistryRaises
    \/ NoRegistry
    \/ ReadTargets
    \/ ProcessRecord
    \/ ProcessRecordRaises
    \/ WriteOutputs

Spec == Init /\ [][Next]_vars

----------------------------------------------------------------------------
(* The scorers on their own: one call of one scorer on a pair of strings.  *)

Idle ==
    /\ REGISTRY = None /\ ENRICHED = <<>>
    /\ OUT_JSON = None /\ REPORT = None /\ SUGG = None
    /\ data = <<>> /\ decisions = <<>>
    /\ report_rows = <<>> /\ suggestion_rows = <<>> /\ updated = 0
    /\ printed = <<>> /\ status = None

IdleVars == <<REGISTRY, ENRICHED, OUT_JSON, REPORT, SUGG, data, decisions,
              report_rows, suggestion_rows, updated, printed, status>>

InitScore ==
    /\ HAVE_RAPIDFUZZ \in BOOLEAN
    /\ pc = "score"
    /\ call \in {[a |-> a, b |-> b] : a \in StringsUpTo(MaxLen), b \in StringsUpTo(MaxLen)}
    /\ result = None
    /\ regs = <<>>
    /\ Idle

Returns(fn, value) ==
    /\ pc = "score"
    /\ result' = [fn |-> fn, value |-> value]
    /\ pc' = "scored"
    /\ UNCHANGED <<HAVE_RAPIDFUZZ, regs, call, IdleVars>>

CallSimilar == Returns("similar", similar(call.a, call.b))
CallTokenOverlap == Returns("token_overlap_score", token_overlap_score(call.a, call.b))
CallCombined == Returns("rapidfuzz_combined", rapidfuzz_combined(call.a, call.b))

NextScore == CallSimilar \/ CallTokenOverlap \/ CallCombined

SpecScore == InitScore /\ [][NextScore]_vars

----------------------------------------------------------------------------
(* The ranker on its own: one call of find_registry_matches.               *)

Entries == {LoadRow(r) : r \in {r \in RowSet : ~RowRaises(r)}}

InitRank ==
    /\ HAVE_RAPIDFUZZ \in BOOLEAN
    /\ pc = "rank"
    /\ regs \in SeqsUpTo(Entries, MaxRegs)
    /\ call \in {[name |-> NameOf(t), aliases |-> AliasesOf(t), top_n |-> n] :
                    t \in TargetSet, n \in 0..MaxTopN}
    /\ result = None
    /\ Idle

Rank ==
    /\ pc = "rank"
    /\ result' = find_registry_matches(call.name, call.aliases, regs, call.top_n)
    /\ pc' = "ranked"
    /\ UNCHANGED <<HAVE_RAPIDFUZZ, regs, call, IdleVars>>

NextRank == Rank

SpecRank == InitRank /\ [][NextRank]_vars

----------------------------------------------------------------------------
(* The run on the registry and the targets of the two scenarios: the same  *)
(* actions as Spec, from other files.                                      *)

\* "Gaylord Rehabilitation"
GaylordRehabilitation ==
    <<"G", "a", "y", "l", "o", "r", "d", " ", "R", "e", "h", "a", "b", "i",
      "l", "i", "t", "a", "t", "i", "o", "n">>

\* "Gaylord Rehab Hospital"
GaylordRehabHospital ==
    <<"G", "a", "y", "l", "o", "r", "d", " ", "R", "e", "h", "a", "b", " ",
      "H", "o", "s", "p", "i", "t", "a", "l">>

\* "Unrelated Clinic"
UnrelatedClinic ==
    <<"U", "n", "r", "e", "l", "a", "t", "e", "d", " ", "C", "l", "i", "n",
      "i", "c">>

\* The registry row of the scenarios, with the spellings of true that line 40
\* accepts, and the same row with a cell that is no number.
ScenarioRows ==
    {[name |-> GaylordRehabilitation, carf_brain_injury |-> c,
      average_therapy_hours |-> "3",
      level_of_care |-> "inpatient_rehabilitation"] : c \in {"yes", " TRUE", "1"}}
    \cup {[name |-> GaylordRehabilitation, carf_brain_injury |-> "yes",
            average_therapy_hours |-> "n/a",
            level_of_care |-> "inpatient_rehabilitation"]}

\* The targets of the scenarios, in both forms of the name, with and
\* without containers, and one with "specializations": null.
ScenarioTargets ==
    { Target("plain", Some(GaylordRehabHospital), Some(<<>>), None, None, None),
      Target("dict", Some(GaylordRehabHospital), None, FullSpec(Some(FALSE)),
             Some(ProgramDetails(Some([value |-> 2]))), Some("ltach")),
      Target("plain", Some(UnrelatedClinic), Some(<<>>), None, None, None),
      Target("dict", Some(UnrelatedClinic), None, FullSpec(Some(TRUE)),
             Some(ProgramDetails(None)), Some("ltach")),
      Target("plain", Some(UnrelatedClinic), Some(<<>>), Null, None, None) }

InitScenario ==
    /\ HAVE_RAPIDFUZZ \in BOOLEAN
    /\ pc = "main"
    /\ REGISTRY \in {None} \cup {Some(<<r>>) : r \in ScenarioRows}
    /\ ENRICHED \in {WithIds(ts) : ts \in SeqsUpTo(ScenarioTargets, MaxRecs)}
    /\ OUT_JSON = None /\ REPORT = None /\ SUGG = None
    /\ regs = <<>> /\ data = <<>> /\ decisions = <<>>
    /\ report_rows = <<>> /\ suggestion_rows = <<>> /\ updated = 0
    /\ printed = <<>> /\ status = None
    /\ call = None /\ result = None

SpecScenario == InitScenario /\ [][Next]_vars

----------------------------------------------------------------------------
(* The loop of apply_registry run twice on the same records and registry,  *)
(* with two values for the constant of line 120.                           *)

\* The values tried for AUTO_APPLY_THRESHOLD.
Thresholds == {Frac(1, 2), Frac(3, 4), Frac(9, 10)}

\* Line 131 for every record of recs: the threshold has no part in it.
CandidatesOf(recs, rs) ==
    [k \in 1..Len(recs) |->
        find_registry_matches(NameOf(recs[k]), AliasesOf(recs[k]), rs, 5)]

\* Lines 171-180 for every record of recs, cands[k] being its candidates.
RECURSIVE SuggestionsOfPass(_, _)
SuggestionsOfPass(recs, cands) ==
    IF recs = <<>> THEN <<>>
    ELSE Suggestions(recs[1], cands[1]) \o SuggestionsOfPass(Tail(recs), Tail(cands))

\* Lines 123-180 for every record of recs, with AUTO_APPLY_THRESHOLD = t:
\* per record whether it is Applied, and the suggestion rows of the pass.
PassAt(t, recs, cands) ==
    [applied |-> [k \in 1..Len(recs) |-> ShouldApplyAt(t, cands[k])],
     suggestions |-> SuggestionsOfPass(recs, cands)]

InitMono ==
    /\ HAVE_RAPIDFUZZ \in BOOLEAN
    /\ pc = "mono"
    /\ regs \in SeqsUpTo(Entries, MaxRegs) \ {<<>>}
    /\ call \in {WithIds(ts) :
                    ts \in SeqsUpTo({t \in TargetSet : ~RecordRaises(t)}, MaxRecs)}
    /\ result = None
    /\ Idle

RunBoth ==
    /\ pc = "mono"
    /\ \E cands \in {CandidatesOf(call, regs)} :
       \E t1 \in Thresholds, t2 \in Thresholds :
          /\ FGeq(t2, t1)
          /\ result' = [t1 |-> t1, t2 |-> t2,
                        lo |-> PassAt(t1, call, cands),
                        hi |-> PassAt(t2, call, cands)]
    /\ pc' = "compared"
    /\ UNCHANGED <<HAVE_RAPIDFUZZ, regs, call, IdleVars>>

NextMono == RunBoth

SpecMono == InitMono /\ [][NextMono]_vars

----------------------------------------------------------------------------
(* Properties of the pass (Spec).                                          *)

\* score >= n / d
AtLeast(score, n, d) == score[1] * d >= n * score[2]

Done(k) == k \in 1..Len(decisions)
Candidates(k) == decisions[k].candidates
TopScore(k) == Candidates(k)[1][1]
TopMatch(k) == Candidates(k)[1][2]

\* The record's top score reaches 0.75.
Confident(k) == Candidates(k) # <<>> /\ AtLeast(TopScore(k), 3, 4)

\* The 'value' key of brain_injury, None when it or a container is missing.
BrainValue(f) ==
    IF f.specializations = None THEN None
    ELSE IF f.specializations[1].carf_accreditations = None THEN None
    ELSE IF f.specializations[1].carf_accreditations[1].brain_injury = None THEN None
    ELSE f.specializations[1].carf_accreditations[1].brain_injury[1].value

\* The average_therapy_hours_per_day key, None when it or its container is missing.
Hours(f) ==
    IF f.program_details = None THEN None
    ELSE f.program_details[1].average_therapy_hours_per_day

\* C1: a record that is not Applied (no candidate, or a top score below
\* 0.75) is identical, containers included, to the record that was read; so
\* is a record the loop has not reached.
C1_NotAppliedUnchanged ==
    \A k \in 1..Len(data) :
        (~Done(k) \/ ~Confident(k)) => data[k] = ENRICHED[k]

\* A finished run with a record whose top score is in [0.30, 0.75).
C1_Witness ==
    /\ pc = "done"
    /\ \E k \in 1..Len(decisions) :
          /\ Candidates(k) # <<>>
          /\ AtLeast(TopScore(k), 3, 10)
          /\ ~AtLeast(TopScore(k), 3, 4)
          /\ OUT_JSON[1][k] = ENRICHED[k]

\* C2: a record is Applied exactly when it has a candidate and its first
\* candidate scores >= 0.75; the counter equals the number of such records
\* done so far, and it is the count the summary line prints.
C2_AppliedIffThreshold ==
    /\ \A k \in 1..Len(decisions) : decisions[k].applied <=> Confident(k)
    /\ updated = Cardinality({k \in 1..Len(decisions) : Confident(k)})
    /\ \A k \in 1..Len(decisions) : data[k] # ENRICHED[k] => Confident(k)
    /\ status = Some(0) =>
          \E n \in 1..Len(printed) :
              printed[n] = <<"auto-applied",
                             Cardinality({k \in 1..Len(data) : Confident(k)})>>

\* A finished run with one record Applied and one that has candidates but
\* none reaching 0.75.
C2_Witness ==
    /\ pc = "done"
    /\ updated = 1
    /\ \E k \in 1..Len(decisions) :
          decisions[k].applied /\ data[k] # ENRICHED[k]
    /\ \E k \in 1..Len(decisions) :
          ~decisions[k].applied /\ Candidates(k) # <<>>

\* C3: what an Applied record holds afterwards is what it held before or
\* what its first candidate offers: the level is the first candidate's if
\* that has one and the old one otherwise, likewise the hours, and the flag
\* is true only if it was true or the first candidate's flag is true.
C3_TopCandidateOnly ==
    \A k \in 1..Len(decisions) :
        decisions[k].applied =>
            /\ data[k].level_of_care =
                  IF TopMatch(k).level_of_care # None
                  THEN TopMatch(k).level_of_care ELSE ENRICHED[k].level_of_care
            /\ \/ Hours(data[k]) = Hours(ENRICHED[k])
               \/ /\ TopMatch(k).average_therapy_hours # None
                  /\ Hours(data[k]) =
                        Some([value |-> TopMatch(k).average_therapy_hours[1]])
            /\ TopMatch(k).average_therapy_hours = None =>
                  Hours(data[k]) = Hours(ENRICHED[k])
            /\ CarfValue(data[k]) =>
                  CarfValue(ENRICHED[k]) \/ TopMatch(k).carf_brain_injury

\* An Applied record whose second candidate also scores >= 0.75 and offers
\* a flag, hours and a level that the first lacks; the record got none.
C3_Witness ==
    \E k \in 1..Len(decisions) :
        /\ decisions[k].applied
        /\ Len(Candidates(k)) >= 2
        /\ AtLeast(Candidates(k)[2][1], 3, 4)
        /\ TopMatch(k).level_of_care = None
        /\ TopMatch(k).average_therapy_hours = None
        /\ ~TopMatch(k).carf_brain_injury
        /\ Candidates(k)[2][2].level_of_care # None
        /\ Candidates(k)[2][2].average_therapy_hours # None
        /\ Candidates(k)[2][2].carf_brain_injury
        /\ ENRICHED[k].level_of_care = None
        /\ data[k].level_of_care = None
        /\ Hours(data[k]) = None
        /\ ~CarfValue(data[k])

\* The suggestion rows of record k (its id is k), in order.
RowsOf(k) == SelectSeq(suggestion_rows, LAMBDA r : r.id = Some(k))

\* Row r reports candidate c: its name, flag and hours, and its score to
\* three decimals.
Reports(r, c) ==
    /\ r.candidate_name = c[2].name
    /\ r.candidate_carf = c[2].carf_brain_injury
    /\ r.candidate_therapy_hours = c[2].average_therapy_hours
    /\ 2000 * (r.score[1] * c[1][2] - c[1][1] * r.score[2]) <= r.score[2] * c[1][2]
    /\ 2000 * (c[1][1] * r.score[2] - r.score[1] * c[1][2]) <= r.score[2] * c[1][2]

\* C4: the rows of a processed record are, in rank order, its candidates
\* that score >= 0.30, Applied or not; a record not yet processed has none.
C4_SuggestionRows ==
    \A k \in 1..Len(data) :
        IF ~Done(k) THEN RowsOf(k) = <<>>
        ELSE LET listed == {j \in 1..Len(Candidates(k)) :
                               AtLeast(Candidates(k)[j][1], 3, 10)}
             IN /\ Len(RowsOf(k)) = Cardinality(listed)
                /\ \A j \in listed :
                      Reports(RowsOf(k)[Cardinality({i \in listed : i <= j})],
                              Candidates(k)[j])

\* A finished run where an Applied record has its first and its second
\* candidate listed, and another record has a candidate below 0.30 that is
\* not listed.
C4_Witness ==
    /\ pc = "done"
    /\ \E k \in 1..Len(decisions) :
          decisions[k].applied /\ Len(Candidates(k)) = 2 /\ Len(RowsOf(k)) = 2
    /\ \E k \in 1..Len(decisions) :
          Candidates(k) # <<>> /\ Len(RowsOf(k)) < Len(Candidates(k))

\* C5: a flag that was true stays true; a flag is true afterwards only if
\* it was true or the record was Applied from a row whose flag is true; and
\* every report row has carf_before => carf_after.
C5_NeverDowngrades ==
    /\ \A k \in 1..Len(data) :
          /\ CarfValue(ENRICHED[k]) => CarfValue(data[k])
          /\ CarfValue(data[k]) =>
                \/ CarfValue(ENRICHED[k])
                \/ Done(k) /\ Confident(k) /\ TopMatch(k).carf_brain_injury
    /\ \A k \in 1..Len(report_rows) :
          /\ report_rows[k].carf_before = CarfValue(ENRICHED[k])
          /\ report_rows[k].carf_after = CarfValue(data[k])
          /\ report_rows[k].carf_before => report_rows[k].carf_after

\* An Applied record whose flag was true and whose winning row's flag is
\* false.
C5_Witness ==
    \E k \in 1..Len(decisions) :
        /\ decisions[k].applied
        /\ CarfValue(ENRICHED[k])
        /\ ~TopMatch(k).carf_brain_injury
        /\ report_rows[k].carf_after

\* C6: an Applied record's hours are the winning row's whenever the row has
\* an hours value, zero included, and are unchanged when it has none.
C6_HoursOverwritten ==
    \A k \in 1..Len(decisions) :
        decisions[k].applied =>
            IF TopMatch(k).average_therapy_hours # None
            THEN Hours(data[k]) = Some([value |-> TopMatch(k).average_therapy_hours[1]])
            ELSE Hours(data[k]) = Hours(ENRICHED[k])

\* C7 as stated: an Applied record changes only where the winning row
\* offers a value; where it offers none, the field and its containers are
\* as they were, and nothing else of the record changes.
C7_OnlyOfferedTouched ==
    \A k \in 1..Len(decisions) :
        decisions[k].applied =>
            /\ ~TopMatch(k).carf_brain_injury =>
                  data[k].specializations = ENRICHED[k].specializations
            /\ TopMatch(k).average_therapy_hours = None =>
                  data[k].program_details = ENRICHED[k].program_details
            /\ TopMatch(k).level_of_care = None =>
                  data[k].level_of_care = ENRICHED[k].level_of_care
            /\ data[k].id = ENRICHED[k].id
            /\ data[k].name = ENRICHED[k].name
            /\ data[k].alias_names = ENRICHED[k].alias_names

\* C7 as amended: the value of each field the winning row does not offer is
\* as it was (absent stays absent), id, name and aliases do not change, and
\* the containers specializations, carf_accreditations, brain_injury and
\* program_details exist afterwards, created empty where they were missing.
C7_ValuesOnlyOfferedTouched ==
    \A k \in 1..Len(decisions) :
        decisions[k].applied =>
            /\ ~TopMatch(k).carf_brain_injury =>
                  BrainValue(data[k]) = BrainValue(ENRICHED[k])
            /\ TopMatch(k).average_therapy_hours = None =>
                  Hours(data[k]) = Hours(ENRICHED[k])
            /\ TopMatch(k).level_of_care = None =>
                  data[k].level_of_care = ENRICHED[k].level_of_care
            /\ data[k].id = ENRICHED[k].id
            /\ data[k].name = ENRICHED[k].name
            /\ data[k].alias_names = ENRICHED[k].alias_names
            /\ data[k].specializations # None
            /\ data[k].specializations[1].carf_accreditations # None
            /\ data[k].specializations[1].carf_accreditations[1].brain_injury # None
            /\ data[k].program_details # None

\* An Applied record that had no specializations and no program_details,
\* whose winning row offers nothing: both containers exist afterwards, with
\* no value in them.
C7_Witness ==
    \E k \in 1..Len(decisions) :
        /\ decisions[k].applied
        /\ ~TopMatch(k).carf_brain_injury
        /\ TopMatch(k).average_therapy_hours = None
        /\ TopMatch(k).level_of_care = None
        /\ ENRICHED[k].specializations = None
        /\ ENRICHED[k].program_details = None
        /\ data[k].specializations = FullSpec(None)
        /\ data[k].program_details = Some(ProgramDetails(None))

----------------------------------------------------------------------------
(* Properties of the ranker (SpecRank).                                    *)

\* C8: for a target with a name or an alias, the ranker returns
\* min(top_n, |registry|) candidates, each a registry row with its score,
\* in non-increasing score order, rows of equal score in registry order,
\* and no row left out scores strictly more than a row returned.
C8_RankedTopN ==
    (pc = "ranked" /\ (call.name # <<>> \/ call.aliases # <<>>)) =>
        LET n == Len(result)
            text == call.name \o <<" ">> \o join(call.aliases, <<" ">>)
            ScoreOf(m) == RowScore(call.name, text, regs[m])
        IN /\ n = IF call.top_n < Len(regs) THEN call.top_n ELSE Len(regs)
           /\ \A i, j \in 1..n :
                 i < j => result[j][1][1] * result[i][1][2]
                              <= result[i][1][1] * result[j][1][2]
           /\ \E at \in [1..n -> 1..Len(regs)] :
                 /\ \A i, j \in 1..n : i # j => at[i] # at[j]
                 /\ \A i \in 1..n : result[i] = <<ScoreOf(at[i]), regs[at[i]]>>
                 /\ \A i, j \in 1..n :
                       (i < j /\ result[i][1] = result[j][1]) => at[i] < at[j]
                 /\ \A m \in 1..Len(regs) :
                       (\A i \in 1..n : at[i] # m) =>
                           \A i \in 1..n :
                               ScoreOf(m)[1] * result[i][1][2]
                                   <= result[i][1][1] * ScoreOf(m)[2]

\* Two different rows of equal score, returned in registry order.
C8_Witness ==
    /\ pc = "ranked"
    /\ Len(result) = 2
    /\ result[1][1] = result[2][1]
    /\ result[1][2] # result[2][2]
    /\ result[1][2] = regs[1]
    /\ result[2][2] = regs[2]

----------------------------------------------------------------------------
(* Properties of the scorers (SpecScore).                                  *)

\* The string has a letter or a digit, so normalize_text leaves a token.
HasToken(a) == \E i \in 1..Len(a) : a[i] \in {"a", "b", "c", "d", "e", "A"}

\* The scorer that was called, applied to x and y.
Scored(x, y) ==
    CASE result.fn = "similar" -> similar(x, y)
      [] result.fn = "token_overlap_score" -> token_overlap_score(x, y)
      [] result.fn = "rapidfuzz_combined" -> rapidfuzz_combined(x, y)

\* C9 as stated: every scorer returns 1.0 for (a, a), for every string a.
C9_Identity ==
    (pc = "scored" /\ call.a = call.b) => result.value = <<1, 1>>

\* C9 as amended: for (a, a), similar returns 1.0 for every a;
\* token_overlap_score returns 1.0 if a has an alphanumeric token and 0.0
\* if it has none; rapidfuzz_combined returns 1.0 without the library, and
\* 0.9 with it when a has an alphanumeric token.
C9_IdentityWhereTokens ==
    (pc = "scored" /\ call.a = call.b) =>
        CASE result.fn = "similar" -> result.value = <<1, 1>>
          [] result.fn = "token_overlap_score" ->
                result.value = IF HasToken(call.a) THEN <<1, 1>> ELSE <<0, 1>>
          [] result.fn = "rapidfuzz_combined" ->
                IF ~HAVE_RAPIDFUZZ THEN result.value = <<1, 1>>
                ELSE HasToken(call.a) => result.value = <<9, 10>>

\* token_overlap_score called on (a, a) for a non-empty a without any
\* alphanumeric character: it returned 0.0.
C9_Witness ==
    /\ pc = "scored"
    /\ call.a = call.b
    /\ call.a # <<>>
    /\ ~HasToken(call.a)
    /\ result.fn = "token_overlap_score"
    /\ result.value = <<0, 1>>

\* C10: every scorer returns for (a, b) what it returns for (b, a).
C10_Symmetric ==
    pc = "scored" => result.value = Scored(call.b, call.a)

----------------------------------------------------------------------------
(* Properties of the run as a whole (Spec).                                *)

\* C11: once the registry file has been read, every row has its entry, in
\* order: a row whose therapy-hours cell is non-empty and no number has an
\* entry with hours absent and its other fields as loaded, and every other
\* row has the entry load_local_registry builds for it.
C11_MalformedCoerced ==
    (REGISTRY # None /\ pc # "main") =>
        /\ Len(regs) = Len(REGISTRY[1])
        /\ \A i \in 1..Len(regs) :
              IF RowRaises(REGISTRY[1][i])
              THEN /\ regs[i].average_therapy_hours = None
                   /\ regs[i].name = strip(REGISTRY[1][i].name)
              ELSE regs[i] = LoadRow(REGISTRY[1][i])

\* The registry is missing: no file, or a file without rows.
NoRows == REGISTRY = None \/ REGISTRY = Some(<<>>)

\* C12: with the registry file absent or without rows, once main has loaded
\* it nothing is read or written: no record is read, processed or changed,
\* no output file exists, and when main has returned it has printed the
\* two diagnostic lines and nothing else, and its status is 1.
C12_NoRegistryAborts ==
    (NoRows /\ pc # "main") =>
        /\ pc \in {"loaded", "done"}
        /\ regs = <<>> /\ data = <<>> /\ decisions = <<>>
        /\ report_rows = <<>> /\ suggestion_rows = <<>> /\ updated = 0
        /\ OUT_JSON = None /\ REPORT = None /\ SUGG = None
        /\ pc = "done" =>
              /\ status = Some(1)
              /\ printed = << <<"No local registry found">>, <<"Place a CSV">> >>
        /\ pc = "loaded" => (status = None /\ printed = <<>>)

\* main has returned 1 for a registry file that exists but has no rows,
\* with two target records waiting.
C12_Witness ==
    /\ REGISTRY = Some(<<>>)
    /\ Len(ENRICHED) = 2
    /\ pc = "done"
    /\ status = Some(1)
    /\ OUT_JSON = None

\* The record has no name and no aliases.
Nameless(f) == NameOf(f) = <<>> /\ AliasesOf(f) = <<>>

\* C13: a processed record without name and aliases has no candidate, is not
\* Applied, equals the record read, has one report row (its own, not
\* matched, score 0) and no suggestion row; the run never stops at such a
\* record, and a run that returns 0 has processed every record.
C13_NamelessIsNoMatch ==
    /\ Len(report_rows) = Len(decisions)
    /\ \A k \in 1..Len(decisions) :
          Nameless(ENRICHED[k]) =>
              /\ Candidates(k) = <<>>
              /\ ~decisions[k].applied
              /\ data[k] = ENRICHED[k]
              /\ report_rows[k].id = Some(k)
              /\ ~report_rows[k].matched
              /\ report_rows[k].match_score = <<0, 1>>
              /\ RowsOf(k) = <<>>
    /\ (pc = "raised" /\ regs # <<>>) => ~Nameless(ENRICHED[Len(decisions) + 1])
    /\ status = Some(0) => Len(decisions) = Len(ENRICHED)

\* A finished run whose first record has the name {"value": ""} and the
\* aliases [], and whose second record was Applied.
C13_Witness ==
    /\ pc = "done"
    /\ Len(decisions) = 2
    /\ ENRICHED[1].name = [form |-> "dict", value |-> Some(<<>>)]
    /\ ENRICHED[1].alias_names = Some(<<>>)
    /\ Candidates(1) = <<>>
    /\ decisions[2].applied
    /\ Len(OUT_JSON[1]) = 2

----------------------------------------------------------------------------
(* Properties of the pass under two thresholds (SpecMono).                 *)

\* C14: with the same records and registry and thresholds t1 <= t2, every
\* record Applied under t2 is Applied under t1, and the suggestion rows of
\* the two passes are the same.
C14_ThresholdMonotone ==
    (pc = "compared" /\ result.t1[1] * result.t2[2] <= result.t2[1] * result.t1[2]) =>
        /\ \A k \in 1..Len(call) :
              result.hi.applied[k] => result.lo.applied[k]
        /\ result.hi.suggestions = result.lo.suggestions

\* Two passes with t1 < t2 where a record is Applied under t1 and not under
\* t2, another is Applied under both, and there are suggestion rows.
C14_Witness ==
    /\ pc = "compared"
    /\ result.t1[1] * result.t2[2] < result.t2[1] * result.t1[2]
    /\ \E k \in 1..Len(call) :
          result.lo.applied[k] /\ ~result.hi.applied[k]
    /\ \E k \in 1..Len(call) :
          result.lo.applied[k] /\ result.hi.applied[k]
    /\ result.lo.suggestions # <<>>

----------------------------------------------------------------------------
(* The scenarios (SpecScenario).                                           *)

\* The registry holds only the entry "Gaylord Rehabilitation": accredited,
\* 3 therapy hours, level inpatient_rehabilitation.
OnlyGaylord ==
    regs = <<[name |-> GaylordRehabilitation, carf_brain_injury |-> TRUE,
              average_therapy_hours |-> Some(3),
              level_of_care |-> Some("inpatient_rehabilitation")]>>

\* Record k is named name and has no aliases.
Named(k, name) == NameOf(ENRICHED[k]) = name /\ AliasesOf(ENRICHED[k]) = <<>>

\* C15: with only the Gaylord entry, a processed record named "Gaylord Rehab
\* Hospital" without aliases has a top score >= 0.75, is Applied, and is
\* accredited with 3 therapy hours afterwards.
C15_GaylordApplied ==
    \A k \in 1..Len(decisions) :
        (OnlyGaylord /\ Named(k, GaylordRehabHospital)) =>
            /\ AtLeast(TopScore(k), 3, 4)
            /\ decisions[k].applied
            /\ CarfValue(data[k])
            /\ Hours(data[k]) = Some([value |-> 3])

\* C16: with only the Gaylord entry, a processed record named "Unrelated
\* Clinic" without aliases has a score below 0.30, is not Applied, has no
\* suggestion row and equals the record read.
C16_UnrelatedNotSuggested ==
    \A k \in 1..Len(decisions) :
        (OnlyGaylord /\ Named(k, UnrelatedClinic)) =>
            /\ ~AtLeast(TopScore(k), 3, 10)
            /\ ~decisions[k].applied
            /\ RowsOf(k) = <<>>
            /\ data[k] = ENRICHED[k]

----------------------------------------------------------------------------
(* Failures and reporting (Spec, SpecRank).                                *)

\* The run has ended: main has returned or an exception has left it.
Ended == pc \in {"done", "raised"}

\* C17: a run on a registry that loads and has rows ends by returning, with
\* the three output files written and a report row for every record that
\* does not itself fail, whatever the shape of the other records.
C17_FailuresIsolated ==
    (Ended /\ ~NoRows /\ ~FileRaises(REGISTRY)) =>
        /\ pc = "done"
        /\ OUT_JSON # None /\ REPORT # None /\ SUGG # None
        /\ \A k \in 1..Len(ENRICHED) :
              ~RecordRaises(ENRICHED[k]) =>
                  \E n \in 1..Len(report_rows) : report_rows[n].id = Some(k)

\* A summary line with a count of Applied records has been printed.
SummaryPrinted ==
    \E n \in 1..Len(printed) : printed[n][1] = "auto-applied"

\* C18: a run that has ended, by returning or by an exception, has printed
\* a summary with the count of Applied records (the weakest reading: the
\* counts of Suggested and NoMatch records are not even asked for).  Every
\* run ends, the loop being over a finite list, so this is what "eventually
\* prints" comes to.
C18_SummaryPrinted == Ended => SummaryPrinted

\* C19: every candidate the ranker returns has the score
\* max(S(composite, entry), S(name, entry), token_overlap(composite, entry)),
\* S being the blended ratio with the library and the sequence ratio
\* without it, and the score lies in [0, 1].
C19_ScoreIsBlend ==
    pc = "ranked" =>
        \A i \in 1..Len(result) :
            LET text == call.name \o <<" ">> \o join(call.aliases, <<" ">>)
                entry == result[i][2].name
                S(x) == IF HAVE_RAPIDFUZZ THEN rapidfuzz_combined(x, entry)
                        ELSE SequenceMatcher_ratio(lower(x), lower(entry))
                best == FMax(FMax(S(text), S(call.name)),
                             token_overlap_score(text, entry))
            IN /\ result[i][1][1] * best[2] = best[1] * result[i][1][2]
               /\ 0 <= result[i][1][1]
               /\ result[i][1][1] <= result[i][1][2]

\* C20: the decision report has one row per processed record, in input
\* order, and a row's matched flag is true exactly when the record was
\* Applied.
C20_MatchedIffApplied ==
    /\ Len(report_rows) = Len(decisions)
    /\ \A k \in 1..Len(report_rows) :
          /\ report_rows[k].id = Some(k)
          /\ report_rows[k].matched <=> decisions[k].applied

====
